---------------------------- MODULE Spec2Model ----------------------------
(***************************************************************************)
(* chirc: message framing (process_buffered_messages and the connection    *)
(* loop of process_client_messages), the two-pass tokenizer                 *)
(* (parse_message, get_arg) and the per-connection registration state       *)
(* (process_message, send_welcome_message), modelled from src/src/main.c    *)
(* and src/src/message.c.                                                   *)
(*                                                                          *)
(* Bytes are one-character strings.  C strings and byte ranges are          *)
(* sequences of bytes; C indices are 0-based, so byte i of a C array is     *)
(* element i+1 of the sequence (operator At).  A char* value is a record:   *)
(* NULL, a pointer to an owned string Str(s), or WILD, a pointer value read *)
(* from outside an allocated array.                                         *)
(***************************************************************************)
EXTENDS Integers, Sequences, FiniteSets, TLC

\* ------------------------------------------------------------------ bounds
\* capacity of the receive buffer (1024 in the source, scaled down)
buffer_size == 16
\* most middle arguments of a generated well-formed frame
MaxMiddle == 3
\* most get_arg calls made on one parsed message by the parser harness
MaxGets == 3
\* most pieces concatenated into one raw (not necessarily well-formed) frame
MaxPieces == 3
\* most pieces concatenated into the stream of a single connection
MaxMsgs == 3
\* most messages in the stream of each of the server's connections
MaxServerMsgs == 1

\* ------------------------------------------------------------------- bytes
CR == "\r"
LF == "\n"
SP == " "
COLON == ":"
\* content of memory that was never written (malloc'ed, not initialised)
JUNK == "?"

NICK == <<"N", "I", "C", "K">>
USER == <<"U", "S", "E", "R">>

At(s, i) == s[i + 1]
\* bytes [from, to) of a C array
Slice(s, from, to) == SubSeq(s, from + 1, to)

\* ---------------------------------------------------------------- pointers
NULL == [k |-> "null"]
WILD == [k |-> "wild"]
Str(s) == [k |-> "str", s |-> s]

\* ------------------------------------------------------------ parse_message
\* Mutant of CountArgs: the count does not stop at the first colon.
RECURSIVE CountArgs_PastColon(_, _, _)
CountArgs_PastColon(message_str, message_length, offset) ==
    IF offset >= message_length THEN 0
    ELSE (IF At(message_str, offset) = SP THEN 1 ELSE 0)
         + CountArgs_PastColon(message_str, message_length, offset + 1)

\* Pass 1: the spaces before the first colon.
RECURSIVE CountArgs(_, _, _)
CountArgs(message_str, message_length, offset) ==
    IF offset >= message_length THEN 0
    ELSE IF At(message_str, offset) = SP
         THEN 1 + CountArgs(message_str, message_length, offset + 1)
    ELSE IF At(message_str, offset) = COLON THEN 0
    ELSE CountArgs(message_str, message_length, offset + 1)

\* The inner loop of pass 2: <<start_offset, offset>> when it stops.
RECURSIVE ScanToken(_, _, _, _)
ScanToken(message_str, message_length, start_offset, offset) ==
    IF offset >= message_length THEN <<start_offset, offset>>
    ELSE IF At(message_str, offset) = COLON
         THEN <<start_offset + 1, message_length + 1>>
    ELSE IF At(message_str, offset) = SP THEN <<start_offset, offset + 1>>
    ELSE ScanToken(message_str, message_length, start_offset, offset + 1)

\* One iteration of the outer loop of pass 2: the token's start_offset, the
\* offset after it and arg_len (the copy is arg_len - 1 bytes long).
TokenAt(message_str, message_length, offset) ==
    LET s == ScanToken(message_str, message_length, offset, offset)
        off == IF s[2] = message_length THEN s[2] + 1 ELSE s[2]
    IN [start_offset |-> s[1], offset |-> off, arg_len |-> off - s[1]]

\* The copy made of the token t: the arg_len - 1 bytes from start_offset.  A
\* token with arg_len < 1 is a malloc(0) and a memcpy of -1 bytes: its
\* content is not defined and is kept empty here, flagged by arg_len.
CopyToken(message_str, t) ==
    [tok |-> IF t.arg_len >= 1
             THEN Slice(message_str, t.start_offset, t.start_offset + t.arg_len - 1)
             ELSE <<>>,
     arg_len |-> t.arg_len,
     start |-> t.start_offset]

\* The tokens of pass 2, command first, as records [tok, arg_len, start]:
\* count iterations of the outer loop from offset on.  (Each iteration's
\* token t is drawn from a one-element set, so that it is computed once.)
RECURSIVE CollectArgs(_, _, _, _)
CollectArgs(message_str, message_length, count, offset) ==
    IF count = 0 THEN <<>>
    ELSE CHOOSE toks \in
            {<<CopyToken(message_str, t)>>
               \o CollectArgs(message_str, message_length, count - 1, t.offset)
             : t \in {TokenAt(message_str, message_length, offset)}} : TRUE

\* msg *parse_message(char *message_str, int message_length)
parse_message(message_str, message_length) ==
    LET n == CountArgs(message_str, message_length, 0)
        toks == CollectArgs(message_str, message_length, n + 1, 0)
    IN [command |-> toks[1].tok,
        args |-> [i \in 1..n |-> Str(toks[i + 1].tok)],
        numArgs |-> n,
        lens |-> [i \in 1..(n + 1) |-> toks[i].arg_len],
        starts |-> [i \in 1..(n + 1) |-> toks[i].start]]

\* The copy of a token is defined only for arg_len >= 1.
ParseFault(m) == \E i \in DOMAIN m.lens : m.lens[i] < 1

\* ------------------------------------------------------------------ get_arg
\* char *get_arg(msg *m, int arg_index): the possible results [ret, m, oob].
\* Inside the array the slot is returned and set to NULL.  Outside it
\* (arg_index >= numArgs) m->args[arg_index] is a read and a write past the
\* allocation: the value read is NULL or some other pointer value, and the
\* msg's own slots are not changed.
\* (get_arg_NoClear is the mutant that returns the slot and leaves it set.)
get_arg_NoClear(m, arg_index) ==
    IF arg_index < m.numArgs
    THEN {[ret |-> m.args[arg_index + 1], m |-> m, oob |-> FALSE]}
    ELSE {[ret |-> p, m |-> m, oob |-> TRUE] : p \in {NULL, WILD}}

get_arg(m, arg_index) ==
    IF arg_index < m.numArgs
    THEN {[ret |-> m.args[arg_index + 1],
           m |-> [m EXCEPT !.args[arg_index + 1] = NULL],
           oob |-> FALSE]}
    ELSE {[ret |-> p, m |-> m, oob |-> TRUE] : p \in {NULL, WILD}}

\* ---------------------------------------------------------- process_message
\* A connection's client struct as main() initialises it.
NewClient ==
    [nick |-> NULL, username |-> NULL, fullName |-> NULL,
     welcomeMessageSent |-> FALSE]

\* The RPL_WELCOME reply written to the client's socket.
Welcome(c) == [code |-> "001", nick |-> c.nick, username |-> c.username]

send_welcome_message(c) == [c EXCEPT !.welcomeMessageSent = TRUE]

\* Mutant of HandleCommand: USER stores its two arguments the other way round.
HandleCommand_Swapped(m, c) ==
    IF m.command = NICK
    THEN {[c |-> [c EXCEPT !.nick = g.ret], oob |-> g.oob] : g \in get_arg(m, 0)}
    ELSE IF m.command = USER
    THEN UNION {{[c |-> [c EXCEPT !.username = g3.ret, !.fullName = g0.ret],
                  oob |-> g0.oob \/ g3.oob] : g3 \in get_arg(g0.m, 3)}
                : g0 \in get_arg(m, 0)}
    ELSE {[c |-> c, oob |-> FALSE]}

\* The command branches of process_message: the possible [c, oob].
HandleCommand(m, c) ==
    IF m.command = NICK
    THEN {[c |-> [c EXCEPT !.nick = g.ret], oob |-> g.oob] : g \in get_arg(m, 0)}
    ELSE IF m.command = USER
    THEN UNION {{[c |-> [c EXCEPT !.username = g0.ret, !.fullName = g3.ret],
                  oob |-> g0.oob \/ g3.oob] : g3 \in get_arg(g0.m, 3)}
                : g0 \in get_arg(m, 0)}
    ELSE {[c |-> c, oob |-> FALSE]}

\* Mutant of CheckWelcome: the welcome is sent whether or not it was sent
\* before.
CheckWelcome_Again(h) ==
    IF h.c.nick # NULL /\ h.c.username # NULL
    THEN [c |-> send_welcome_message(h.c), replies |-> <<Welcome(h.c)>>,
          oob |-> h.oob, crashed |-> FALSE]
    ELSE [c |-> h.c, replies |-> <<>>, oob |-> h.oob, crashed |-> FALSE]

\* The registration check that ends process_message.
CheckWelcome(h) ==
    IF h.c.nick # NULL /\ h.c.username # NULL /\ ~h.c.welcomeMessageSent
    THEN [c |-> send_welcome_message(h.c), replies |-> <<Welcome(h.c)>>,
          oob |-> h.oob, crashed |-> FALSE]
    ELSE [c |-> h.c, replies |-> <<>>, oob |-> h.oob, crashed |-> FALSE]

\* void process_message(char *message, int message_length, client *c): the
\* possible outcomes [c, replies, oob, crashed].  An access outside the
\* argument array, or a token copy of negative length, may also end the
\* process (crashed).
process_message(message, message_length, c) ==
    LET m == parse_message(message, message_length)
        handled == HandleCommand(m, c)
        ub == ParseFault(m) \/ \E h \in handled : h.oob
    IN {CheckWelcome(h) : h \in handled}
       \cup (IF ub
             THEN {[c |-> c, replies |-> <<>>,
                    oob |-> \E h \in handled : h.oob, crashed |-> TRUE]}
             ELSE {})

\* ------------------------------------------------ process_buffered_messages
\* What one dispatch pass accumulates: the client, the frames handed to
\* process_message, the replies sent, whether get_arg went outside the
\* argument array, whether the process crashed; for each call of
\* process_message the client before and after it and the number of replies
\* it sent (handled) and the buffer range [start, end) it was given (cuts);
\* the highest buffer index the scan has read (maxread, -1 for none).
PassStart(c) ==
    [c |-> c, frames |-> <<>>, replies |-> <<>>, oob |-> FALSE, crashed |-> FALSE,
     handled |-> <<>>, cuts |-> <<>>, maxread |-> -1]

AfterMessage(st, frame, o, message_start_offset, i) ==
    [c |-> o.c, frames |-> Append(st.frames, frame),
     replies |-> st.replies \o o.replies,
     oob |-> st.oob \/ o.oob, crashed |-> o.crashed,
     handled |-> Append(st.handled,
                        [before |-> st.c, after |-> o.c, sent |-> Len(o.replies),
                         crashed |-> o.crashed]),
     cuts |-> Append(st.cuts, [start |-> message_start_offset, end |-> i]),
     maxread |-> i + 1]

\* Mutant of ScanFrom: the loop runs up to the last byte below the write
\* offset (i < buffer_offset).
RECURSIVE ScanFrom_ToEnd(_, _, _, _, _)
ScanFrom_ToEnd(buffer, buffer_offset, i, message_start_offset, st) ==
    IF st.crashed \/ i >= buffer_offset
    THEN {[message_start_offset |-> message_start_offset, st |-> st]}
    ELSE IF At(buffer, i) = CR /\ At(buffer, i + 1) = LF
    THEN LET message_length == i - message_start_offset
             frame == Slice(buffer, message_start_offset, i)
             after == {AfterMessage(st, frame, o, message_start_offset, i)
                       : o \in process_message(frame, message_length, st.c)}
         IN UNION {ScanFrom_ToEnd(buffer, buffer_offset, i + 1, i + 2, st2)
                   : st2 \in after}
    ELSE ScanFrom_ToEnd(buffer, buffer_offset, i + 1, message_start_offset,
                        [st EXCEPT !.maxread = IF At(buffer, i) = CR THEN i + 1 ELSE i])

\* The for loop from index i on: the possible [message_start_offset, st].
RECURSIVE ScanFrom(_, _, _, _, _)
ScanFrom(buffer, buffer_offset, i, message_start_offset, st) ==
    IF st.crashed \/ i >= buffer_offset - 1
    THEN {[message_start_offset |-> message_start_offset, st |-> st]}
    ELSE IF At(buffer, i) = CR /\ At(buffer, i + 1) = LF
    THEN LET message_length == i - message_start_offset
             frame == Slice(buffer, message_start_offset, i)
             after == {AfterMessage(st, frame, o, message_start_offset, i)
                       : o \in process_message(frame, message_length, st.c)}
         IN UNION {ScanFrom(buffer, buffer_offset, i + 1, i + 2, st2)
                   : st2 \in after}
    ELSE ScanFrom(buffer, buffer_offset, i + 1, message_start_offset,
                  [st EXCEPT !.maxread = IF At(buffer, i) = CR THEN i + 1 ELSE i])

\* Mutant of process_buffered_messages: a full buffer with no boundary is not
\* dropped.
process_buffered_messages_NoDrop(buffer, size, buffer_offset, c) ==
    {[consumed |-> r.message_start_offset,
      boundary |-> r.message_start_offset,
      warned |-> FALSE,
      st |-> r.st]
     : r \in ScanFrom(buffer, buffer_offset, 1, 0, PassStart(c))}

\* int process_buffered_messages(buffer, buffer_size, buffer_offset, c): the
\* possible [consumed, boundary, warned, st]; boundary is message_start_offset
\* when the loop ends, consumed the value returned.
process_buffered_messages(buffer, size, buffer_offset, c) ==
    {LET full == r.message_start_offset = 0 /\ buffer_offset = size
     IN [consumed |-> IF full THEN size ELSE r.message_start_offset,
         boundary |-> r.message_start_offset,
         warned |-> full /\ ~r.st.crashed,
         st |-> r.st]
     : r \in ScanFrom(buffer, buffer_offset, 1, 0, PassStart(c))}

\* ------------------------------------------------------------------- state
VARIABLES
    alive,          \* the server process: "running", "exited" (exit(1)), "crashed"
    worker,         \* per connection: "none" (not accepted yet), "running", or
                    \* "failed" (its read returned -1)
    stream,         \* per connection: all the bytes its peer sends
    wire,           \* per connection: the bytes not yet returned by read()
    peer,           \* per connection: "open" or "closed" (the peer has closed)
    buffer,         \* per connection: the bytes of its receive buffer
    buffer_offset,  \* per connection: its write offset
    client,         \* per connection: its client struct
    replies,        \* per connection: the replies written to its socket
    frames,         \* per connection: the frames handed to process_message
    handled,        \* per connection: for each of those frames the client
                    \* before and after process_message and the replies it sent
    warnings,       \* per connection: its WARNING log events
    last,           \* per connection: what its last dispatch pass did
    oob,            \* per connection: get_arg was called with arg_index >= numArgs
    zero_reads,     \* per connection: parity of its reads that returned 0
    ph,             \* parser harness: "off", "frame", "parsed" or "freed"
    gen,            \* parser harness: the parts the frame was built from
    frame,          \* parser harness: the frame given to parse_message
    msg,            \* parser harness: the msg struct
    gets            \* parser harness: the get_arg calls made, <<index, result>>

connVars ==
    <<alive, worker, stream, wire, peer, buffer, buffer_offset, client,
      replies, frames, handled, warnings, last, oob, zero_reads>>
parseVars == <<ph, gen, frame, msg, gets>>
vars == <<connVars, parseVars>>

Conns == {1, 2}

Min(a, b) == IF a < b THEN a ELSE b

\* ------------------------------------------------- process_client_messages
\* malloc(buffer_size): nothing written yet.
NewBuffer == [j \in 1..buffer_size |-> JUNK]

\* offset: the write offset after the read; boundary: message_start_offset
\* when the scan ended; consumed: the value the pass returned; tail: the
\* bytes from the boundary to the write offset, before compaction; done: the
\* iteration reached its end; before: the bytes below the write offset when
\* the pass ran; cuts: the ranges [start, end) handed to process_message;
\* maxread: the highest index the scan read; copied: the length given to the
\* compaction memcpy, whose source starts at consumed.
NoPass ==
    [offset |-> 0, consumed |-> 0, boundary |-> 0, tail |-> <<>>,
     warned |-> FALSE, nframes |-> 0, done |-> FALSE,
     before |-> <<>>, cuts |-> <<>>, maxread |-> -1, copied |-> 0]

\* read(sockfd, buffer + buffer_offset, ...) returning the bytes of chunk
ReadInto(buf, offset, chunk) ==
    [j \in 1..Len(buf) |->
        IF offset < j /\ j <= offset + Len(chunk) THEN chunk[j - offset]
        ELSE buf[j]]

\* memcpy(buffer, buffer + src, n).  A source byte at or after the end of
\* the allocation is outside the buffer: what is copied from there is JUNK.
memcpy(buf, src, n) ==
    [j \in 1..Len(buf) |->
        IF j <= n
        THEN (IF src + j <= Len(buf) THEN buf[src + j] ELSE JUNK)
        ELSE buf[j]]

\* The length argument of the compaction memcpy.
CopyLength(consumed_offset, offset) == consumed_offset

\* Mutant of ClientOf: every worker is started on the same client struct.
ClientOf_Shared(c) == 1

\* The client struct the worker of connection c was started on (the ptr
\* argument of its thread): the one main() allocated for that connection.
ClientOf(c) == c

\* The memcpy reads bytes [src, src + n): outside the allocation when that
\* range passes its end.
ReadsOutside(buf, src, n) == n > 0 /\ src + n > Len(buf)

\* One iteration of the while loop for connection c, its read returning n
\* bytes: the read, the dispatch pass, the compaction.
Iterate(c, n) ==
    LET chunk == SubSeq(wire[c], 1, n)
        off1 == buffer_offset[c] + n
    IN \E buf1 \in {ReadInto(buffer[c], buffer_offset[c], chunk)} :
       \E r \in process_buffered_messages(buf1, buffer_size, off1,
                                          client[ClientOf(c)]) :
       \E len \in {CopyLength(r.consumed, off1)} :
       \E crash \in (IF r.st.crashed THEN {TRUE}
                     ELSE IF ReadsOutside(buf1, r.consumed, len)
                     THEN {TRUE, FALSE} ELSE {FALSE}) :
         /\ wire' = [wire EXCEPT ![c] = SubSeq(wire[c], n + 1, Len(wire[c]))]
         /\ frames' = [frames EXCEPT ![c] = frames[c] \o r.st.frames]
         /\ handled' = [handled EXCEPT ![c] = handled[c] \o r.st.handled]
         /\ replies' = [replies EXCEPT ![c] = replies[c] \o r.st.replies]
         /\ oob' = [oob EXCEPT ![c] = oob[c] \/ r.st.oob]
         /\ warnings' = [warnings EXCEPT ![c] = warnings[c] + (IF r.warned THEN 1 ELSE 0)]
         /\ client' = [client EXCEPT ![ClientOf(c)] = r.st.c]
         /\ last' = [last EXCEPT ![c] =
                [offset |-> off1, consumed |-> r.consumed,
                 boundary |-> r.boundary,
                 tail |-> Slice(buf1, r.boundary, off1),
                 warned |-> r.warned, nframes |-> Len(r.st.frames),
                 done |-> ~crash,
                 before |-> Slice(buf1, 0, off1), cuts |-> r.st.cuts,
                 maxread |-> r.st.maxread, copied |-> len]]
         /\ IF crash
            THEN /\ alive' = "crashed"
                 /\ buffer' = [buffer EXCEPT ![c] = buf1]
                 /\ buffer_offset' = [buffer_offset EXCEPT ![c] = off1]
            ELSE /\ alive' = alive
                 /\ buffer' = [buffer EXCEPT ![c] = memcpy(buf1, r.consumed, len)]
                 /\ buffer_offset' = [buffer_offset EXCEPT ![c] = off1 - r.consumed]

\* ----------------------------------------------------------------- actions
\* main()'s accept loop: a new client struct, accept(), pthread_create();
\* the new worker allocates its buffer.  s is what the peer will send.
Accept(c, s) ==
    /\ alive = "running"
    /\ worker[c] = "none"
    /\ worker' = [worker EXCEPT ![c] = "running"]
    /\ client' = [client EXCEPT ![c] = NewClient]
    /\ stream' = [stream EXCEPT ![c] = s]
    /\ wire' = [wire EXCEPT ![c] = s]
    /\ buffer' = [buffer EXCEPT ![c] = NewBuffer]
    /\ buffer_offset' = [buffer_offset EXCEPT ![c] = 0]
    /\ UNCHANGED <<alive, peer, replies, frames, handled, warnings, last, oob,
                   zero_reads>>
    /\ UNCHANGED parseVars

\* accept() returns -1: exit(1).
AcceptFail ==
    /\ alive = "running"
    /\ alive' = "exited"
    /\ UNCHANGED <<worker, stream, wire, peer, buffer, buffer_offset, client,
                   replies, frames, handled, warnings, last, oob, zero_reads>>
    /\ UNCHANGED parseVars

\* The peer closes its end once it has sent its stream.
PeerClose(c) ==
    /\ alive = "running"
    /\ worker[c] = "running"
    /\ peer[c] = "open"
    /\ wire[c] = <<>>
    /\ peer' = [peer EXCEPT ![c] = "closed"]
    /\ UNCHANGED <<alive, worker, stream, wire, buffer, buffer_offset, client,
                   replies, frames, handled, warnings, last, oob, zero_reads>>
    /\ UNCHANGED parseVars

\* A loop iteration whose read returns n > 0 bytes.
ReadData(c, n) ==
    /\ alive = "running"
    /\ worker[c] = "running"
    /\ n \in 1..Min(buffer_size - buffer_offset[c], Len(wire[c]))
    /\ Iterate(c, n)
    /\ UNCHANGED <<worker, stream, peer, zero_reads>>
    /\ UNCHANGED parseVars

\* A loop iteration whose read returns 0: end of stream, or no room left in
\* the buffer (a read of length 0).
ReadZero(c) ==
    /\ alive = "running"
    /\ worker[c] = "running"
    /\ \/ wire[c] = <<>> /\ peer[c] = "closed"
       \/ buffer_size - buffer_offset[c] = 0
    /\ Iterate(c, 0)
    /\ zero_reads' = [zero_reads EXCEPT ![c] = 1 - zero_reads[c]]
    /\ UNCHANGED <<worker, stream, peer>>
    /\ UNCHANGED parseVars

\* A loop iteration whose read returns -1: exit(1) ends the process.
ReadError(c) ==
    /\ alive = "running"
    /\ worker[c] = "running"
    /\ alive' = "exited"
    /\ worker' = [worker EXCEPT ![c] = "failed"]
    /\ UNCHANGED <<stream, wire, peer, buffer, buffer_offset, client,
                   replies, frames, handled, warnings, last, oob, zero_reads>>
    /\ UNCHANGED parseVars

\* ---------------------------------------------------------- parser harness
\* parse_message applied to the frame.
Parse ==
    /\ ph = "frame"
    /\ msg' = parse_message(frame, Len(frame))
    /\ ph' = "parsed"
    /\ UNCHANGED <<gen, frame, gets>>
    /\ UNCHANGED connVars

\* get_arg(m, i) on the parsed message, for an index inside its arguments.
GetArg(i) ==
    /\ ph = "parsed"
    /\ Len(gets) < MaxGets
    /\ i \in 0..(msg.numArgs - 1)
    /\ \E g \in get_arg(msg, i) :
         /\ msg' = g.m
         /\ gets' = Append(gets, <<i, g.ret>>)
    /\ UNCHANGED <<ph, gen, frame>>
    /\ UNCHANGED connVars

\* free_message(m): the slots that were not fetched are freed with the msg;
\* the strings already fetched stay with their callers.
FreeMessage ==
    /\ ph = "parsed"
    /\ ph' = "freed"
    /\ msg' = [msg EXCEPT !.args = [i \in DOMAIN msg.args |-> NULL]]
    /\ UNCHANGED <<gen, frame, gets>>
    /\ UNCHANGED connVars

\* ------------------------------------------------------------------ inputs
\* All sequences of at most n elements of S.
RECURSIVE SeqsUpTo(_, _)
SeqsUpTo(S, n) ==
    IF n = 0 THEN {<<>>}
    ELSE LET shorter == SeqsUpTo(S, n - 1)
         IN shorter \cup {Append(s, x) : s \in shorter, x \in S}

RECURSIVE Concat(_)
Concat(ss) == IF ss = <<>> THEN <<>> ELSE Head(ss) \o Concat(Tail(ss))

Line(m) == m \o <<CR, LF>>

\* Well-formed frames, by their parts: <command> (' ' <middle>)* (' :' <trailing>)?
CommandTokens == {NICK, USER, <<"Q">>}
MiddleTokens == {<<"b", "o", "b">>, <<"0">>}
TrailingTexts ==
    {<<>>, <<"x">>, <<"B", "o", "b", SP, "S">>, <<COLON, "a", SP, COLON>>}
NoGen == [command |-> <<>>, middles |-> <<>>, trailing |-> <<>>]
Gens ==
    [command : CommandTokens,
     middles : SeqsUpTo(MiddleTokens, MaxMiddle),
     trailing : {<<>>} \cup {<<x>> : x \in TrailingTexts}]

RECURSIVE Middles(_)
Middles(ms) == IF ms = <<>> THEN <<>> ELSE <<SP>> \o Head(ms) \o Middles(Tail(ms))

\* The frame a client writes for the parts g.
Encode(g) ==
    g.command \o Middles(g.middles)
    \o (IF g.trailing = <<>> THEN <<>> ELSE <<SP, COLON>> \o g.trailing[1])

\* Frames of any shape.
RawPieces == {NICK, USER, <<"a">>, <<SP>>, <<COLON>>, <<"a", COLON, "b">>}
RawFrames == {Concat(ps) : ps \in SeqsUpTo(RawPieces, MaxPieces)}

\* Messages on the wire.
M_NICK == NICK \o <<SP, "a">>
M_USER == USER \o <<SP, "b", SP, "0", SP, "0", SP, COLON, "c">>
M_NICK0 == NICK
M_USER1 == USER \o <<SP, "b">>
M_OTHER == <<"Q">>
M_EMPTY == <<>>
Fill == <<"y", "y", "y", "y", "y", "y", "y", "y">>

\* The streams a single connection is checked on: complete messages and
\* runs of bytes with no terminator, in any order.
WirePieces ==
    {Line(M_NICK), Line(M_USER), Line(M_NICK0), Line(M_USER1), Line(M_OTHER),
     Line(M_EMPTY), Fill}
Streams == {Concat(ps) : ps \in SeqsUpTo(WirePieces, MaxMsgs)}

\* The streams of the server's connections.
ServerPieces == {Line(M_NICK), Line(M_USER)}
ServerStreams == {Concat(ps) : ps \in SeqsUpTo(ServerPieces, MaxServerMsgs)}

\* --------------------------------------------------------- specifications
InitConns ==
    /\ alive = "running"
    /\ worker = [c \in Conns |-> "none"]
    /\ stream = [c \in Conns |-> <<>>]
    /\ wire = [c \in Conns |-> <<>>]
    /\ peer = [c \in Conns |-> "open"]
    /\ buffer = [c \in Conns |-> NewBuffer]
    /\ buffer_offset = [c \in Conns |-> 0]
    /\ client = [c \in Conns |-> NewClient]
    /\ replies = [c \in Conns |-> <<>>]
    /\ frames = [c \in Conns |-> <<>>]
    /\ handled = [c \in Conns |-> <<>>]
    /\ warnings = [c \in Conns |-> 0]
    /\ last = [c \in Conns |-> NoPass]
    /\ oob = [c \in Conns |-> FALSE]
    /\ zero_reads = [c \in Conns |-> 0]

NoMsg == [command |-> <<>>, args |-> <<>>, numArgs |-> 0, lens |-> <<>>, starts |-> <<>>]

InitParserOff ==
    /\ ph = "off"
    /\ gen = NoGen
    /\ frame = <<>>
    /\ msg = NoMsg
    /\ gets = <<>>

\* The server: the acceptor and one worker per connection.
Init == InitConns /\ InitParserOff

Next ==
    \/ \E c \in Conns : \E s \in ServerStreams : Accept(c, s)
    \/ AcceptFail
    \/ \E c \in Conns : PeerClose(c)
    \/ \E c \in Conns : \E n \in 1..buffer_size : ReadData(c, n)
    \/ \E c \in Conns : ReadZero(c)
    \/ \E c \in Conns : ReadError(c)

Spec == Init /\ [][Next]_vars

\* The server with the scheduling the workers get: a worker whose read can
\* return is eventually run.
FairSpec ==
    /\ Spec
    /\ \A c \in Conns : WF_vars(\E n \in 1..buffer_size : ReadData(c, n))
    /\ \A c \in Conns : WF_vars(ReadZero(c))

\* One connection, on every stream of Streams cut into reads in every way.
NextConn ==
    \/ \E s \in Streams : Accept(1, s)
    \/ AcceptFail
    \/ PeerClose(1)
    \/ \E n \in 1..buffer_size : ReadData(1, n)
    \/ ReadZero(1)
    \/ ReadError(1)

SpecConn == Init /\ [][NextConn]_vars

\* The parser alone, on well-formed frames and on frames of any shape.
InitParse ==
    /\ InitConns
    /\ ph = "frame"
    /\ msg = NoMsg
    /\ gets = <<>>
    /\ \/ \E g \in Gens : gen = g /\ frame = Encode(g)
       \/ \E f \in RawFrames : gen = NoGen /\ frame = f

NextParse ==
    \/ Parse
    \/ \E i \in 0..(MaxMiddle + 1) : GetArg(i)
    \/ FreeMessage

SpecParse == InitParse /\ [][NextParse]_vars

\* ------------------------------------------------------------------ claims
\* The messages of a stream: the byte runs between its CRLF terminators.
RECURSIVE SplitCRLF(_, _)
SplitCRLF(s, from) ==
    IF \E i \in from..(Len(s) - 1) : s[i] = CR /\ s[i + 1] = LF
    THEN LET i == CHOOSE i \in from..(Len(s) - 1) :
                    /\ s[i] = CR /\ s[i + 1] = LF
                    /\ \A j \in from..(i - 1) : ~(s[j] = CR /\ s[j + 1] = LF)
         IN <<SubSeq(s, from, i - 1)>> \o SplitCRLF(s, i + 2)
    ELSE <<>>

\* s is a concatenation of CRLF-terminated, non-empty messages that each fit
\* in the buffer with their terminator.
CompleteStream(s) ==
    LET ms == SplitCRLF(s, 1)
    IN /\ Len(s) = Len(Concat(ms)) + 2 * Len(ms)
       /\ \A k \in 1..Len(ms) : Len(ms[k]) >= 1 /\ Len(ms[k]) + 2 <= buffer_size

\* The worker of c is between two iterations and has read its whole stream.
Delivered(c) ==
    worker[c] = "running" /\ alive # "crashed" /\ wire[c] = <<>> /\ stream[c] # <<>>

\* C1: once a stream of complete messages has been read, in whatever reads
\* it arrived, the frames handed to process_message are exactly its messages,
\* in order (stated here for streams of non-empty messages).
C1_FramingIndependentOfChunking ==
    \A c \in Conns :
        Delivered(c) /\ CompleteStream(stream[c])
            => frames[c] = SplitCRLF(stream[c], 1)

\* C2: after a dispatch pass that dropped nothing, the buffer bytes below the
\* new write offset are the bytes that followed the last recognised boundary.
C2_PartialMessageRetained ==
    \A c \in Conns :
        last[c].done /\ ~last[c].warned
            => Slice(buffer[c], 0, buffer_offset[c]) = last[c].tail

\* Some frame handed to process_message for c had the command cmd.
Processed(c, cmd) ==
    \E k \in 1..Len(frames[c]) :
        parse_message(frames[c][k], Len(frames[c][k])).command = cmd

\* C3: the welcome reply is sent at most once per connection, the registered
\* flag is true exactly when it has been sent, and once a NICK and a USER
\* message have both been processed it has been sent exactly once.
C3_RegistrationIdempotence ==
    \A c \in Conns :
        /\ Len(replies[c]) <= 1
        /\ client[c].welcomeMessageSent <=> Len(replies[c]) = 1
        /\ (alive # "crashed" /\ Processed(c, NICK) /\ Processed(c, USER))
               => Len(replies[c]) = 1

\* C4: registered implies nick and username are both set; between messages,
\* nick and username both set implies registered; a connection that has
\* processed only NICK or only USER is not registered and got no welcome.
C4_RegisteredIffBothSet ==
    \A c \in Conns :
        /\ client[c].welcomeMessageSent
               => client[c].nick # NULL /\ client[c].username # NULL
        /\ (alive # "crashed" /\ client[c].nick # NULL /\ client[c].username # NULL)
               => client[c].welcomeMessageSent
        /\ ~(Processed(c, NICK) /\ Processed(c, USER))
               => ~client[c].welcomeMessageSent /\ replies[c] = <<>>

\* C5: a dispatch pass that finds the buffer full with no boundary recognised
\* logs one WARNING, dispatches nothing, leaves the write offset at 0 and the
\* loop goes on; any other pass logs no WARNING and keeps every byte after
\* the last boundary.
C5_OverflowDrop ==
    \A c \in Conns :
        IF last[c].offset = buffer_size /\ last[c].boundary = 0
        THEN /\ last[c].warned
             /\ last[c].nframes = 0
             /\ last[c].done
             /\ buffer_offset[c] = 0
        ELSE /\ ~last[c].warned
             /\ last[c].done => buffer_offset[c] = last[c].offset - last[c].boundary

\* C6: a well-formed frame parses to its command, its middle tokens in order
\* and, if present, its trailing text as the single last argument.
C6_TrailingParameterParsed ==
    (ph = "parsed" /\ gen # NoGen /\ gets = <<>>)
        => /\ msg.command = gen.command
           /\ msg.numArgs = Len(gen.middles) + Len(gen.trailing)
           /\ \A i \in 1..Len(gen.middles) : msg.args[i] = Str(gen.middles[i])
           /\ gen.trailing # <<>> => msg.args[msg.numArgs] = Str(gen.trailing[1])

\* "USER bob 0 0 :Bob S" has been parsed into four arguments.
C6_Witness ==
    /\ ph = "parsed"
    /\ gen.command = USER
    /\ gen.middles = <<<<"b", "o", "b">>, <<"0">>, <<"0">>>>
    /\ gen.trailing = <<<<"B", "o", "b", SP, "S">>>>
    /\ msg.numArgs = 4
    /\ msg.args[1] = Str(<<"b", "o", "b">>)
    /\ msg.args[4] = Str(<<"B", "o", "b", SP, "S">>)

\* C7: the first get_arg(m, i) returns the parsed argument i, whatever other
\* arguments were fetched before it, and every later get_arg(m, i) returns NULL.
C7_MoveOnceRetrieval ==
    \A k \in 1..Len(gets) :
        LET i == gets[k][1]
            first == \A j \in 1..(k - 1) : gets[j][1] # i
        IN IF first
           THEN /\ gets[k][2] = parse_message(frame, Len(frame)).args[i + 1]
                /\ gets[k][2] # NULL
           ELSE gets[k][2] = NULL

\* Argument 0 fetched after argument 1, then fetched again.
C7_Witness ==
    /\ Len(gets) = 3
    /\ gets[1][1] = 1 /\ gets[2][1] = 0 /\ gets[3][1] = 0
    /\ gets[2][2] = Str(<<"b", "o", "b">>)
    /\ gets[3][2] = NULL

\* C8: a read error on one connection leaves the server process running, so
\* the workers of the other connections go on.
C8_ReadFailureIsPerConnection ==
    \A c \in Conns : \A d \in Conns \ {c} :
        (worker[c] = "failed" /\ worker[d] = "running") => alive = "running"

\* C9: process_message never calls get_arg with an index outside the parsed
\* arguments.
C9_NoArgumentOutsideArray == \A c \in Conns : ~oob[c]

\* C10: a worker whose peer has closed the socket eventually leaves its loop.
C10_LoopEndsWhenSocketCloses ==
    \A c \in Conns :
        (worker[c] = "running" /\ peer[c] = "closed")
            ~> (worker[c] # "running" \/ alive # "running")

\* The parse of the k-th frame handed to process_message for c.
ParsedFrame(c, k) == parse_message(frames[c][k], Len(frames[c][k]))

\* C11: a call of process_message that returns, on a NICK frame with at
\* least one argument sets nick to argument 0 and leaves username and fullName as they were; on a USER
\* frame with at least four arguments it sets username to argument 0 and
\* fullName to argument 3 and leaves nick as it was; the values stored by the
\* last message are the client's values in every later state, whatever has
\* been read into the buffer since.
C11_HandlersSetDocumentedFields ==
    \A c \in Conns : \A k \in 1..Len(handled[c]) :
        LET m == ParsedFrame(c, k)
            h == handled[c][k]
        IN /\ (~h.crashed /\ m.command = NICK /\ m.numArgs >= 1)
                  => /\ h.after.nick = m.args[1]
                     /\ h.after.username = h.before.username
                     /\ h.after.fullName = h.before.fullName
           /\ (~h.crashed /\ m.command = USER /\ m.numArgs >= 4)
                  => /\ h.after.username = m.args[1]
                     /\ h.after.fullName = m.args[4]
                     /\ h.after.nick = h.before.nick
           /\ IF k < Len(handled[c])
              THEN handled[c][k + 1].before = h.after
              ELSE client[c] = h.after

\* "NICK a" and "USER b 0 0 :c" were handled, then "Q" was read over them.
C11_Witness ==
    /\ frames[1] = <<M_NICK, M_USER, M_OTHER>>
    /\ client[1].nick = Str(<<"a">>)
    /\ client[1].username = Str(<<"b">>)
    /\ client[1].fullName = Str(<<"c">>)
    /\ last[1].before = Line(M_OTHER)
    /\ alive = "running"

\* The byte sequence s holds CR LF at C indices i, i + 1.
CRLFAt(s, i) == i >= 0 /\ i + 1 < Len(s) /\ At(s, i) = CR /\ At(s, i + 1) = LF

\* C12: in every dispatch pass each CR LF pair below the write offset, one at
\* index 0 included, ends a frame, and so no frame handed to process_message
\* contains CR LF.
C12_ScanDoesNotSkipFirstByte ==
    \A c \in Conns :
        /\ alive # "crashed"
               => \A i \in 0..(last[c].offset - 2) :
                      CRLFAt(last[c].before, i)
                          => \E k \in 1..Len(last[c].cuts) : last[c].cuts[k].end = i
        /\ \A k \in 1..Len(frames[c]) :
               \A i \in 0..(Len(frames[c][k]) - 2) : ~CRLFAt(frames[c][k], i)

\* C13: the bytes read by the compaction copy of a dispatch pass lie between
\* the consumed offset and the write offset (and so inside the buffer); a
\* pass that leaves no remainder copies nothing.
C13_CompactionInsideValidData ==
    \A c \in Conns :
        /\ last[c].consumed + last[c].copied <= last[c].offset
        /\ last[c].offset <= buffer_size
        /\ last[c].consumed = last[c].offset => last[c].copied = 0

\* C14: in every dispatch pass each range handed to process_message is
\* followed by CR and LF, both below the write offset; the ranges start at 0
\* and follow one another, and what follows the last of them (a partial
\* message, a lone CR) is not dispatched; the scan reads no index at or above
\* the write offset; the consumed offset is at most the write offset unless
\* the pass dropped a full buffer.
C14_DispatchOnlyWithFullTerminator ==
    \A c \in Conns :
        LET p == last[c]
            n == Len(p.cuts)
        IN /\ \A k \in 1..n :
                  /\ p.cuts[k].end + 1 < p.offset
                  /\ CRLFAt(p.before, p.cuts[k].end)
                  /\ p.cuts[k].start = (IF k = 1 THEN 0 ELSE p.cuts[k - 1].end + 2)
                  /\ frames[c][Len(frames[c]) - n + k]
                         = Slice(p.before, p.cuts[k].start, p.cuts[k].end)
           /\ p.nframes = n
           /\ p.boundary = (IF n = 0 THEN 0 ELSE p.cuts[n].end + 2)
           /\ p.maxread < p.offset
           /\ p.warned \/ p.consumed <= p.offset

\* A pass over "Q\r\nNICK a\r": one frame dispatched, the tail ending in a
\* lone CR kept.
C14_Witness ==
    /\ last[1].before = Line(M_OTHER) \o M_NICK \o <<CR>>
    /\ last[1].cuts = <<[start |-> 0, end |-> 1]>>
    /\ last[1].boundary = 3
    /\ frames[1] = <<M_OTHER>>
    /\ last[1].done

\* C15: the write offset of a connection is always between 0 and
\* buffer_size, and whenever its worker is about to start a loop iteration it
\* is below buffer_size, so the read is given a positive length.
C15_WriteOffsetInvariant ==
    \A c \in Conns :
        /\ 0 <= buffer_offset[c] /\ buffer_offset[c] <= buffer_size
        /\ (alive = "running" /\ worker[c] = "running")
               => buffer_size - buffer_offset[c] > 0

\* A read filled the buffer, and the worker is ready for its next iteration.
C15_Witness ==
    /\ last[1].offset = buffer_size
    /\ last[1].done
    /\ alive = "running" /\ worker[1] = "running"
    /\ wire[1] # <<>>

\* C16: process_message on a frame whose command is neither NICK nor USER
\* leaves nick, username, fullName and welcomeMessageSent as they were and
\* sends no reply, whatever the session was.
C16_UnknownCommandIgnored ==
    \A c \in Conns : \A k \in 1..Len(handled[c]) :
        ParsedFrame(c, k).command \notin {NICK, USER}
            => /\ handled[c][k].after = handled[c][k].before
               /\ handled[c][k].sent = 0

\* "Q" was handled by a registered session.
C16_Witness ==
    /\ frames[1] = <<M_USER, M_NICK, M_OTHER>>
    /\ Len(handled[1]) = 3
    /\ handled[1][3].before.welcomeMessageSent
    /\ handled[1][3].before.nick = Str(<<"a">>)
    /\ handled[1][3].after = handled[1][3].before
    /\ Len(replies[1]) = 1

\* Every token copy of the parse m of f has a non-negative length and reads
\* only bytes of f.
CopiesInside(m, f) ==
    \A i \in DOMAIN m.lens :
        /\ m.lens[i] >= 1
        /\ m.starts[i] >= 0
        /\ m.starts[i] + (m.lens[i] - 1) <= Len(f)

\* C17: for the zero-length frame and for a frame that begins with a space,
\* parse_message yields an empty command token, and every token copy stays
\* inside the frame.
C17_EmptyCommandTolerated ==
    (ph = "parsed" /\ gets = <<>> /\ (frame = <<>> \/ Head(frame) = SP))
        => /\ msg.command = <<>>
           /\ CopiesInside(msg, frame)

\* The tokens of f: the byte runs between its spaces, from C index from on.
RECURSIVE SpaceSplit(_, _)
SpaceSplit(f, from) ==
    IF \E i \in from..(Len(f) - 1) : At(f, i) = SP
    THEN LET i == CHOOSE i \in from..(Len(f) - 1) :
                    At(f, i) = SP /\ \A j \in from..(i - 1) : At(f, j) # SP
         IN <<Slice(f, from, i)>> \o SpaceSplit(f, i + 1)
    ELSE <<Slice(f, from, Len(f))>>

\* No token of f begins with a colon.
NoTokenBeginsWithColon(f) ==
    \A i \in 0..(Len(f) - 1) :
        At(f, i) = COLON => i > 0 /\ At(f, i - 1) # SP

\* C18: in a frame none of whose tokens begins with ':' (and that does not
\* end in a space) a colon is ordinary token content: the command and the
\* arguments are the frame's space-separated tokens, intact.
C18_ColonInsideTokenIsContent ==
    (/\ ph = "parsed" /\ gets = <<>>
     /\ frame # <<>> /\ frame[Len(frame)] # SP
     /\ NoTokenBeginsWithColon(frame))
        => LET toks == SpaceSplit(frame, 0)
           IN /\ msg.command = toks[1]
              /\ msg.numArgs = Len(toks) - 1
              /\ \A i \in 1..msg.numArgs : msg.args[i] = Str(toks[i + 1])

C20_TokenizerMemorySafe ==
    ph = "parsed"
        => /\ \A i \in DOMAIN msg.lens : msg.lens[i] >= 1
           /\ CopiesInside(msg, frame)
           /\ Len(msg.lens) = msg.numArgs + 1
           /\ DOMAIN msg.args = 1..msg.numArgs

====
